---- MODULE Spec2Model ----
(***************************************************************************)
(* The chat backend of server.js: three storage variants (flat JSON files, *)
(* SQLite, in-memory arrays) behind the same HTTP handlers, the external   *)
(* completion call of POST /api/chat and the process-wide current model.   *)
(*                                                                         *)
(* Every await of a handler is a point where the handlers of other         *)
(* requests may run, so a handler is one action per stretch of code        *)
(* between two awaits.  A request's arrival is merged with the first       *)
(* effect of its handler: nothing the handler does before that is visible  *)
(* to any other request.                                                   *)
(***************************************************************************)
EXTENDS Integers, Sequences, FiniteSets, TLC

\* ---------------------------------------------------------------- bounds
\* Requests (create, chat, debug, delete) received in one run.
MaxReq == 3
\* Most whole hours in the retry-after value a provider 429 carries.
MaxHours == 1
\* Most files attached to one chat request.
MaxFiles == 3
\* Chat requests in the runs that explore the prompt and the catch block.
MaxChat == 1

\* ------------------------------------------------------- program constants
max_tokens == 1000

Variants == {"file", "sqlite", "memory"}

\* JavaScript's undefined: a field the request body does not carry.
Undefined == "<undefined>"

VARIABLES
    variant,          \* which of the three server.js variants runs
    conversations,    \* conversations.json / table conversations / CONVERSATIONS
    messages,         \* messages.json / table messages / MESSAGES
    debug_messages,   \* debug_messages.json / DEBUG_MESSAGES (unused by sqlite)
    currentModel,     \* let currentModel
    lastSelect,       \* the last POST /api/models/select: its input and response
    selected,         \* the supported identifier last selected with success
    req               \* the requests received, in order of arrival: handler
                      \* position, locals, response

vars == <<variant, conversations, messages, debug_messages, currentModel,
          lastSelect, selected, req>>

store == <<conversations, messages, debug_messages>>

\* ------------------------------------------------------------ pure helpers

\* uuidv4(): the k-th id request r draws; no two draws return the same id.
uuidv4(r, k) == 3 * r + k

\* An id no conversation was ever given: requests are numbered from 1.
NoId == uuidv4(0, 0)

\* Array.prototype.splice(index, 1), index counted from 0
Splice(s, index) ==
    IF index + 1 \in 1..Len(s)
    THEN SubSeq(s, 1, index) \o SubSeq(s, index + 2, Len(s))
    ELSE s

Range(s) == {s[i] : i \in 1..Len(s)}
Ids(s) == {s[i].id : i \in 1..Len(s)}

\* The own keys of AVAILABLE_MODELS.
AVAILABLE_MODELS_KEYS == {"o1", "gpt-4o-mini", "o1-preview", "gpt-4o"}

\* Property names every object inherits from Object.prototype; the two the
\* model sends.
InheritedKeys == {"constructor", "__proto__"}

\* AVAILABLE_MODELS[model]: a property lookup on a plain object literal, which
\* also finds what the object inherits.
AVAILABLE_MODELS(model) ==
    IF model \in AVAILABLE_MODELS_KEYS THEN model
    ELSE IF model = "constructor" THEN "[Function: Object]"
    ELSE IF model = "__proto__" THEN "[Object: null prototype] {}"
    ELSE Undefined

\* JavaScript truthiness of a string-or-undefined value.
Truthy(v) == v # Undefined /\ v # ""

\* SQL NULL, which a row read back from SQLite carries as null.
Null == "<null>"

\* A parameter of db.run: node-sqlite3 leaves an undefined parameter unbound,
\* and SQLite reads an unbound parameter as NULL.  Any other value of the
\* model (a string) is stored as it is.
SqlBind(v) == IF v = Undefined THEN Null ELSE v

\* A property that JSON text does not carry: reading it gives undefined.
Absent == "<absent>"

\* JSON.stringify, for the value of one property: a property whose value is
\* undefined is left out of the text; a string and null are written and
\* parsed back as they are.
JsonStringify(v) == IF v = Undefined THEN Absent ELSE v

\* ------------------------------------------------------ prompt construction

SystemPrompt == "You are an advanced AI assistant specialized in programming and mathematics. ..."
DefaultImagePrompt == "What do you see in these images?"

\* A request body's files field: absent, or a list of {data}.
NoFiles == [given |-> FALSE, list |-> <<>>]

\* files.map(file => ({type: "image_url", image_url: {url: file.data}}))
imageMessages(list) ==
    [i \in 1..Len(list) |->
        [type |-> "image_url", image_url |-> [url |-> list[i].data]]]

\* UserTurn with the text segment taken from the message as it is, no default
\* prompt standing in for an empty one.
UserTurnNoDefault(message, files) ==
    IF files.given /\ Len(files.list) > 0
    THEN [role |-> "user",
          content |-> [parts |->
              <<[type |-> "text", text |-> message]>> \o imageMessages(files.list)]]
    ELSE [role |-> "user", content |-> [text |-> message]]

\* The user turn pushed onto messages.  A content that is a string is
\* [text |-> s], one that is an array of segments is [parts |-> <<...>>].
UserTurn(message, files) ==
    IF files.given /\ Len(files.list) > 0
    THEN [role |-> "user",
          content |-> [parts |->
              <<[type |-> "text",
                 text |-> IF Truthy(message) THEN message ELSE DefaultImagePrompt]>>
              \o imageMessages(files.list)]]
    ELSE [role |-> "user", content |-> [text |-> message]]

\* const messages = [{role: "system", ...}]; messages.push({role: "user", ...})
BuildMessages(message, files) ==
    <<[role |-> "system", content |-> [text |-> SystemPrompt]],
      UserTurn(message, files)>>

\* The argument of openaiClient.chat.completions.create
CompletionRequest(message, files) ==
    [model |-> currentModel,
     messages |-> BuildMessages(message, files),
     max_tokens |-> max_tokens]

\* ------------------------------------------------------------- catch block

\* error.headers?.['retry-after']: absent, or the decimal text of a number
\* of seconds.
NoHeader == [present |-> FALSE, seconds |-> 0]

\* parseInt(error.headers?.['retry-after']) || 0
waitTimeSeconds(header) == IF header.present THEN header.seconds ELSE 0

\* waitTimeMinutes with Math.floor in place of Math.ceil.
waitTimeMinutesFloor(header) == waitTimeSeconds(header) \div 60

\* Math.ceil(waitTimeSeconds / 60)
waitTimeMinutes(header) == (waitTimeSeconds(header) + 59) \div 60

\* Math.floor(waitTimeMinutes / 60)
waitTimeHours(header) == waitTimeMinutes(header) \div 60

\* 'Rate limit exceeded. Please wait approximately H hours and M minutes
\* before trying again.', or the same with the minutes alone: the numbers
\* the text states.
waitMessage(header) ==
    IF waitTimeHours(header) > 0
    THEN [hours |-> waitTimeHours(header), minutes |-> waitTimeMinutes(header) % 60]
    ELSE [minutes |-> waitTimeMinutes(header)]

\* No response was sent: the request is being handled, or its handler's
\* promise rejected with nothing catching it.
Pending == [status |-> 0, state |-> "pending"]
Unhandled == [status |-> 0, state |-> "unhandled rejection"]

\* ChatCatch answering every status it does not know as a bad request.
ChatCatchDefaultBadRequest(status, header) ==
    IF status = 429
    THEN [status |-> 429, error |-> waitMessage(header),
          retryAfter |-> waitTimeSeconds(header), code |-> "RATE_LIMIT_EXCEEDED"]
    ELSE IF status = 413
    THEN [status |-> 413,
          error |-> "File size is too large. Maximum allowed size is 1MB per file.",
          code |-> "PAYLOAD_TOO_LARGE"]
    ELSE [status |-> 400, error |-> "Invalid request. Please check your inputs.",
          code |-> "BAD_REQUEST"]

\* catch (error) of POST /api/chat; status 0 is an error with no status.
ChatCatch(status, header) ==
    IF status = 429
    THEN [status |-> 429, error |-> waitMessage(header),
          retryAfter |-> waitTimeSeconds(header), code |-> "RATE_LIMIT_EXCEEDED"]
    ELSE IF status = 413
    THEN [status |-> 413,
          error |-> "File size is too large. Maximum allowed size is 1MB per file.",
          code |-> "PAYLOAD_TOO_LARGE"]
    ELSE IF status = 400
    THEN [status |-> 400, error |-> "Invalid request. Please check your inputs.",
          code |-> "BAD_REQUEST"]
    ELSE Unhandled

\* ------------------------------------------------------------------ requests

\* A request as its handler starts: no local set, no response sent.
\*   kind            create | chat | debug | delete
\*   pc              the await the handler is suspended at, or done
\*   conversationId  req.params.id, req.body.conversationId or the id created
\*   message         req.body.message (chat, debug) or req.body.title (create)
\*   data            what readJsonFile returned to the handler (file variant)
\*   files           req.body.files
\*   call            the completion request a chat handler sent
\*   error           the status and the retry-after header of the error the
\*                   completion call threw (status -1: it threw none)
\*   expect          the value of selected when the chat request arrived
\*   reply           completion.choices[0].message.content
\*   resp            the response sent
\*   wrote           how many times the handler changed a stored collection
\*   pre             the ids of the messages of conversationId stored when a
\*                   delete arrived
\*   failed          a read or a write of the store failed while the handler ran
NewRequest(kind, conversationId, message) ==
    [kind |-> kind, pc |-> "start", conversationId |-> conversationId,
     message |-> message, data |-> <<>>, files |-> NoFiles,
     call |-> [model |-> Undefined], error |-> [status |-> -1, header |-> NoHeader],
     expect |-> Undefined, reply |-> Undefined, resp |-> Pending,
     wrote |-> 0, pre |-> {}, failed |-> FALSE]

nreq == Len(req)
Requests == 1..Len(req)

\* The ids a client can name: those a create-conversation response carried,
\* and one that no conversation has.
ClientIds ==
    {NoId} \cup {req[r].conversationId :
                    r \in {q \in Requests : req[q].kind = "create" /\ req[q].pc = "done"
                                            /\ req[q].resp.status = 200}}

\* The field of a stored message that names its conversation.
ConversationOf(msg) ==
    IF variant = "memory" THEN msg.conversationId ELSE msg.conversation_id

Init ==
    /\ variant \in Variants
    /\ conversations = <<>>
    /\ messages = <<>>
    /\ debug_messages = <<>>
    /\ currentModel = AVAILABLE_MODELS("gpt-4o")
    /\ lastSelect = [model |-> Undefined, status |-> 0, before |-> Undefined]
    /\ selected = "gpt-4o"
    /\ req = <<>>

\* ----------------------------------------------------------- POST /api/chat

\* The records the chat handler stores.
UserMessage(r) ==
    IF variant = "memory"
    THEN [id |-> uuidv4(r, 1), conversationId |-> req[r].conversationId,
          role |-> "user", content |-> req[r].message, message_type |-> "chat"]
    ELSE [id |-> uuidv4(r, 1), conversation_id |-> req[r].conversationId,
          role |-> "user",
          content |-> IF variant = "sqlite" THEN SqlBind(req[r].message)
                      ELSE JsonStringify(req[r].message),
          message_type |-> "chat"]

AssistantMessage(r, content) ==
    IF variant = "memory"
    THEN [id |-> uuidv4(r, 2), conversationId |-> req[r].conversationId,
          role |-> "assistant", content |-> content, message_type |-> "chat"]
    ELSE [id |-> uuidv4(r, 2), conversation_id |-> req[r].conversationId,
          role |-> "assistant", content |-> content, message_type |-> "chat"]

\* res.json({message: aiResponse.content, conversationId})
ChatResponse(r, content) ==
    [status |-> 200, message |-> content, conversationId |-> req[r].conversationId]

\* The handler up to its first await: the prompt is built and the completion
\* request is sent with the current model.
ChatReceive(message, conversationId, files) ==
    /\ nreq < MaxReq
    /\ req' = Append(req,
            [NewRequest("chat", conversationId, message) EXCEPT
                !.pc = "awaiting",
                !.files = files,
                !.call = CompletionRequest(message, files),
                !.expect = selected])
    /\ UNCHANGED <<variant, store, currentModel, lastSelect, selected>>

\* ChatReject in a handler that saves the user message before it calls the
\* completion API.
ChatRejectAfterSaving(r, status, header) ==
    /\ req[r].kind = "chat" /\ req[r].pc = "awaiting"
    /\ messages' = Append(messages, UserMessage(r))
    /\ req' = [req EXCEPT ![r].pc = "done",
                          ![r].error = [status |-> status, header |-> header],
                          ![r].resp = ChatCatch(status, header)]
    /\ UNCHANGED <<variant, conversations, debug_messages, currentModel, lastSelect, selected>>

\* The completion call fails with `status` and the handler's catch block runs.
ChatReject(r, status, header) ==
    /\ req[r].kind = "chat" /\ req[r].pc = "awaiting"
    /\ req' = [req EXCEPT ![r].pc = "done",
                          ![r].error = [status |-> status, header |-> header],
                          ![r].resp = ChatCatch(status, header)]
    /\ UNCHANGED <<variant, store, currentModel, lastSelect, selected>>

\* ------------------------------------------------------------- file variant

\* The completion call returns; the handler asks for messages.json.
FileChatResolve(r, content) ==
    /\ variant = "file"
    /\ req[r].kind = "chat" /\ req[r].pc = "awaiting"
    /\ req' = [req EXCEPT ![r].pc = "readMessages", ![r].reply = content]
    /\ UNCHANGED <<variant, store, currentModel, lastSelect, selected>>

\* readJsonFile(MESSAGES_FILE) returns; the user message is pushed onto the
\* handler's copy, which writeJsonFile serialises.
FileChatRead(r) ==
    /\ variant = "file"
    /\ req[r].kind = "chat" /\ req[r].pc = "readMessages"
    /\ req' = [req EXCEPT ![r].pc = "writeUser",
                          ![r].data = Append(messages, UserMessage(r))]
    /\ UNCHANGED <<variant, store, currentModel, lastSelect, selected>>

\* The first writeJsonFile(MESSAGES_FILE) lands; the assistant message is
\* pushed onto the same copy and written in turn.
FileChatWriteUser(r) ==
    /\ variant = "file"
    /\ req[r].kind = "chat" /\ req[r].pc = "writeUser"
    /\ messages' = req[r].data
    /\ req' = [req EXCEPT ![r].pc = "writeAssistant",
                          ![r].data = Append(req[r].data, AssistantMessage(r, req[r].reply)),
                          ![r].wrote = @ + 1]
    /\ UNCHANGED <<variant, conversations, debug_messages, currentModel, lastSelect, selected>>

\* The second writeJsonFile(MESSAGES_FILE) lands and the reply is sent.
FileChatWriteAssistant(r) ==
    /\ variant = "file"
    /\ req[r].kind = "chat" /\ req[r].pc = "writeAssistant"
    /\ messages' = req[r].data
    /\ req' = [req EXCEPT ![r].pc = "done", ![r].data = <<>>,
                          ![r].wrote = @ + 1,
                          ![r].resp = ChatResponse(r, req[r].reply)]
    /\ UNCHANGED <<variant, conversations, debug_messages, currentModel, lastSelect, selected>>

\* POST /api/conversations: readJsonFile(CONVERSATIONS_FILE) returns and the
\* new conversation is pushed onto the handler's copy.
FileCreateRead(title) ==
    /\ nreq < MaxReq
    /\ variant = "file"
    /\ LET r == nreq + 1
           newConversation == [id |-> uuidv4(r, 0), title |-> title]
       IN req' = Append(req,
               [NewRequest("create", newConversation.id, title) EXCEPT
                   !.pc = "write", !.data = Append(conversations, newConversation)])
    /\ UNCHANGED <<variant, store, currentModel, lastSelect, selected>>

\* writeJsonFile(CONVERSATIONS_FILE) lands and the conversation is sent back.
FileCreateWrite(r) ==
    /\ variant = "file"
    /\ req[r].kind = "create" /\ req[r].pc = "write"
    /\ conversations' = req[r].data
    /\ req' = [req EXCEPT ![r].pc = "done", ![r].data = <<>>, ![r].wrote = @ + 1,
                          ![r].resp = [status |-> 200,
                                       body |-> req[r].data[Len(req[r].data)]]]
    /\ UNCHANGED <<variant, messages, debug_messages, currentModel, lastSelect, selected>>

\* POST /api/chat/debug: readJsonFile(DEBUG_MESSAGES_FILE) returns and the
\* debug message is pushed onto the handler's copy.
FileDebugRead(message, conversationId) ==
    /\ nreq < MaxReq
    /\ variant = "file"
    /\ LET r == nreq + 1
       IN req' = Append(req,
               [NewRequest("debug", conversationId, message) EXCEPT
                   !.pc = "write",
                   !.data = Append(debug_messages,
                                [id |-> uuidv4(r, 0), conversation_id |-> conversationId,
                                 role |-> "system",
                                 content |-> JsonStringify(message)])])
    /\ UNCHANGED <<variant, store, currentModel, lastSelect, selected>>

\* writeJsonFile(DEBUG_MESSAGES_FILE) lands; {success: true} is sent.
FileDebugWrite(r) ==
    /\ variant = "file"
    /\ req[r].kind = "debug" /\ req[r].pc = "write"
    /\ debug_messages' = req[r].data
    /\ req' = [req EXCEPT ![r].pc = "done", ![r].data = <<>>, ![r].wrote = @ + 1,
                          ![r].resp = [status |-> 200, success |-> TRUE]]
    /\ UNCHANGED <<variant, conversations, messages, currentModel, lastSelect, selected>>

\* The ids of the chat and debug messages stored for conversation id.
StoredFor(id) ==
    {m.id : m \in {x \in Range(messages) \cup Range(debug_messages) :
                      ConversationOf(x) = id}}

\* DELETE /api/conversations/:id, file variant: three read-modify-write
\* cycles, one per file, each read and each write an await of its own.
FileDeleteReadConversations(id) ==
    /\ nreq < MaxReq
    /\ variant = "file"
    /\ LET Keep(conv) == conv.id # id
       IN req' = Append(req,
               [NewRequest("delete", id, Undefined) EXCEPT
                   !.pc = "writeConversations",
                   !.data = SelectSeq(conversations, Keep),
                   !.pre = StoredFor(id)])
    /\ UNCHANGED <<variant, store, currentModel, lastSelect, selected>>

FileDeleteWriteConversations(r) ==
    /\ variant = "file"
    /\ req[r].kind = "delete" /\ req[r].pc = "writeConversations"
    /\ conversations' = req[r].data
    /\ req' = [req EXCEPT ![r].pc = "readMessages", ![r].data = <<>>, ![r].wrote = @ + 1]
    /\ UNCHANGED <<variant, messages, debug_messages, currentModel, lastSelect, selected>>

FileDeleteReadMessages(r) ==
    /\ variant = "file"
    /\ req[r].kind = "delete" /\ req[r].pc = "readMessages"
    /\ LET Keep(msg) == msg.conversation_id # req[r].conversationId
       IN req' = [req EXCEPT ![r].pc = "writeMessages",
                             ![r].data = SelectSeq(messages, Keep)]
    /\ UNCHANGED <<variant, store, currentModel, lastSelect, selected>>

FileDeleteWriteMessages(r) ==
    /\ variant = "file"
    /\ req[r].kind = "delete" /\ req[r].pc = "writeMessages"
    /\ messages' = req[r].data
    /\ req' = [req EXCEPT ![r].pc = "readDebug", ![r].data = <<>>, ![r].wrote = @ + 1]
    /\ UNCHANGED <<variant, conversations, debug_messages, currentModel, lastSelect, selected>>

FileDeleteReadDebug(r) ==
    /\ variant = "file"
    /\ req[r].kind = "delete" /\ req[r].pc = "readDebug"
    /\ LET Keep(msg) == msg.conversation_id # req[r].conversationId
       IN req' = [req EXCEPT ![r].pc = "writeDebug",
                             ![r].data = SelectSeq(debug_messages, Keep)]
    /\ UNCHANGED <<variant, store, currentModel, lastSelect, selected>>

FileDeleteWriteDebug(r) ==
    /\ variant = "file"
    /\ req[r].kind = "delete" /\ req[r].pc = "writeDebug"
    /\ debug_messages' = req[r].data
    /\ req' = [req EXCEPT ![r].pc = "done", ![r].data = <<>>, ![r].wrote = @ + 1,
                          ![r].resp = [status |-> 200, success |-> TRUE]]
    /\ UNCHANGED <<variant, conversations, messages, currentModel, lastSelect, selected>>

\* ----------------------------------------------------------- sqlite variant
\* One db.run is one statement, run alone.  The table messages holds the chat
\* and the debug rows; foreign keys are declared and never switched on, so an
\* insert is not checked against the table conversations.  Rows are kept in
\* rowid order, which is the order of created_at.

\* INSERT INTO conversations (id, title); res.json({id, title})
SqliteCreate(title) ==
    /\ nreq < MaxReq
    /\ variant = "sqlite"
    /\ LET r == nreq + 1
           id == uuidv4(r, 0)
       IN /\ conversations' = Append(conversations,
                                     [id |-> id, title |-> SqlBind(title)])
          /\ req' = Append(req,
                [NewRequest("create", id, title) EXCEPT
                    !.pc = "done", !.wrote = 1,
                    !.resp = [status |-> 200, body |-> [id |-> id, title |-> title]]])
    /\ UNCHANGED <<variant, messages, debug_messages, currentModel, lastSelect, selected>>

\* The completion call returns; the first INSERT is queued.
SqliteChatResolve(r, content) ==
    /\ variant = "sqlite"
    /\ req[r].kind = "chat" /\ req[r].pc = "awaiting"
    /\ req' = [req EXCEPT ![r].pc = "insertUser", ![r].reply = content]
    /\ UNCHANGED <<variant, store, currentModel, lastSelect, selected>>

\* INSERT INTO messages (...) VALUES (messageId, conversationId, 'user', message)
SqliteChatInsertUser(r) ==
    /\ variant = "sqlite"
    /\ req[r].kind = "chat" /\ req[r].pc = "insertUser"
    /\ messages' = Append(messages, UserMessage(r))
    /\ req' = [req EXCEPT ![r].pc = "insertAssistant", ![r].wrote = @ + 1]
    /\ UNCHANGED <<variant, conversations, debug_messages, currentModel, lastSelect, selected>>

\* INSERT INTO messages (...) VALUES (aiMessageId, conversationId, 'assistant', ...)
SqliteChatInsertAssistant(r) ==
    /\ variant = "sqlite"
    /\ req[r].kind = "chat" /\ req[r].pc = "insertAssistant"
    /\ messages' = Append(messages, AssistantMessage(r, req[r].reply))
    /\ req' = [req EXCEPT ![r].pc = "done", ![r].wrote = @ + 1,
                          ![r].resp = ChatResponse(r, req[r].reply)]
    /\ UNCHANGED <<variant, conversations, debug_messages, currentModel, lastSelect, selected>>

\* INSERT INTO messages (..., message_type) VALUES (..., 'system', message, 'debug')
SqliteDebug(message, conversationId) ==
    /\ nreq < MaxReq
    /\ variant = "sqlite"
    /\ LET r == nreq + 1
       IN /\ messages' = Append(messages,
                [id |-> uuidv4(r, 0), conversation_id |-> conversationId,
                 role |-> "system", content |-> SqlBind(message),
                 message_type |-> "debug"])
          /\ req' = Append(req,
                [NewRequest("debug", conversationId, message) EXCEPT
                    !.pc = "done", !.wrote = 1,
                    !.resp = [status |-> 200, success |-> TRUE]])
    /\ UNCHANGED <<variant, conversations, debug_messages, currentModel, lastSelect, selected>>

\* db.serialize: DELETE FROM messages, then DELETE FROM conversations, queued
\* together and run one after the other with no other statement between.
SqliteDelete(id) ==
    /\ nreq < MaxReq
    /\ variant = "sqlite"
    /\ LET KeepMessage(msg) == msg.conversation_id # id
           KeepConversation(conv) == conv.id # id
       IN /\ messages' = SelectSeq(messages, KeepMessage)
          /\ conversations' = SelectSeq(conversations, KeepConversation)
    /\ req' = Append(req,
            [NewRequest("delete", id, Undefined) EXCEPT
                !.pc = "done", !.wrote = 2, !.pre = StoredFor(id),
                !.resp = [status |-> 200, success |-> TRUE]])
    /\ UNCHANGED <<variant, debug_messages, currentModel, lastSelect, selected>>

\* -------------------------------------------------------- in-memory variant
\* No handler awaits anything but the completion call.

\* CONVERSATIONS.push({id, created_at}): the title of the body is not kept.
MemCreate(title) ==
    /\ nreq < MaxReq
    /\ variant = "memory"
    /\ LET r == nreq + 1
           newConversation == [id |-> uuidv4(r, 0)]
       IN /\ conversations' = Append(conversations, newConversation)
          /\ req' = Append(req,
                [NewRequest("create", newConversation.id, title) EXCEPT
                    !.pc = "done", !.wrote = 1,
                    !.resp = [status |-> 200, body |-> newConversation]])
    /\ UNCHANGED <<variant, messages, debug_messages, currentModel, lastSelect, selected>>

\* The completion call returns; both messages are pushed and the reply sent.
MemChatResolve(r, content) ==
    /\ variant = "memory"
    /\ req[r].kind = "chat" /\ req[r].pc = "awaiting"
    /\ messages' = Append(Append(messages, UserMessage(r)), AssistantMessage(r, content))
    /\ req' = [req EXCEPT ![r].pc = "done", ![r].reply = content, ![r].wrote = 2,
                          ![r].resp = ChatResponse(r, content)]
    /\ UNCHANGED <<variant, conversations, debug_messages, currentModel, lastSelect, selected>>

MemDebug(message, conversationId) ==
    /\ nreq < MaxReq
    /\ variant = "memory"
    /\ LET r == nreq + 1
       IN /\ debug_messages' = Append(debug_messages,
                [id |-> uuidv4(r, 0), conversationId |-> conversationId,
                 role |-> "system", content |-> message])
          /\ req' = Append(req,
                [NewRequest("debug", conversationId, message) EXCEPT
                    !.pc = "done", !.wrote = 1,
                    !.resp = [status |-> 200, success |-> TRUE]])
    /\ UNCHANGED <<variant, conversations, messages, currentModel, lastSelect, selected>>

\* CONVERSATIONS.findIndex(conv => conv.id === id)
findIndex(s, id) ==
    IF \E i \in 1..Len(s) : s[i].id = id
    THEN (CHOOSE i \in 1..Len(s) :
             s[i].id = id /\ \A j \in 1..(i - 1) : s[j].id # id) - 1
    ELSE -1

\* CollectIndices with push in place of unshift: the indices lowest first.
RECURSIVE CollectIndicesAscending(_, _, _, _)
CollectIndicesAscending(s, id, index, indices) ==
    IF index >= Len(s) THEN indices
    ELSE CollectIndicesAscending(s, id, index + 1,
            IF s[index + 1].conversationId = id THEN indices \o <<index>> ELSE indices)

\* forEach((msg, index) => { if (msg.conversationId === id) indices.unshift(index) })
RECURSIVE CollectIndices(_, _, _, _)
CollectIndices(s, id, index, indices) ==
    IF index >= Len(s) THEN indices
    ELSE CollectIndices(s, id, index + 1,
            IF s[index + 1].conversationId = id THEN <<index>> \o indices ELSE indices)

\* indices.forEach(index => ARRAY.splice(index, 1))
RECURSIVE SpliceEach(_, _)
SpliceEach(s, indices) ==
    IF indices = <<>> THEN s
    ELSE SpliceEach(Splice(s, Head(indices)), Tail(indices))

MemDelete(id) ==
    /\ nreq < MaxReq
    /\ variant = "memory"
    /\ conversations' = IF findIndex(conversations, id) # -1
                        THEN Splice(conversations, findIndex(conversations, id))
                        ELSE conversations
    /\ messages' = SpliceEach(messages, CollectIndices(messages, id, 0, <<>>))
    /\ debug_messages' =
           SpliceEach(debug_messages, CollectIndices(debug_messages, id, 0, <<>>))
    /\ req' = Append(req,
            [NewRequest("delete", id, Undefined) EXCEPT
                !.pc = "done", !.wrote = 3, !.pre = StoredFor(id),
                !.resp = [status |-> 200, success |-> TRUE]])
    /\ UNCHANGED <<variant, currentModel, lastSelect, selected>>

\* ------------------------------------------------- failures of the store
\* readJsonFile catches the failure of fs.readFile or JSON.parse and returns
\* null, so the handler's next property access throws a TypeError.
\* writeJsonFile catches the failure of fs.writeFile and returns as if it had
\* written.  A failed write is taken to leave the file as it was.  A failed
\* SQL statement hands err to its callback.  The in-memory variant has no
\* store that can fail.

\* res.status(500).json({error: 'Failed to ...'})
ServerError == [status |-> 500, error |-> "Failed"]

\* POST /api/conversations: readJsonFile returns null, data.conversations
\* throws, the handler's catch answers 500.
FileCreateReadFails(title) ==
    /\ nreq < MaxReq
    /\ variant = "file"
    /\ req' = Append(req,
            [NewRequest("create", uuidv4(nreq + 1, 0), title) EXCEPT
                !.pc = "done", !.failed = TRUE, !.resp = ServerError])
    /\ UNCHANGED <<variant, store, currentModel, lastSelect, selected>>

\* writeJsonFile(CONVERSATIONS_FILE) fails and returns; the handler goes on
\* to res.json(newConversation).
FileCreateWriteFails(r) ==
    /\ variant = "file"
    /\ req[r].kind = "create" /\ req[r].pc = "write"
    /\ req' = [req EXCEPT ![r].pc = "done", ![r].data = <<>>, ![r].failed = TRUE,
                          ![r].resp = [status |-> 200,
                                       body |-> req[r].data[Len(req[r].data)]]]
    /\ UNCHANGED <<variant, store, currentModel, lastSelect, selected>>

\* POST /api/chat/debug: readJsonFile returns null.
FileDebugReadFails(message, conversationId) ==
    /\ nreq < MaxReq
    /\ variant = "file"
    /\ req' = Append(req,
            [NewRequest("debug", conversationId, message) EXCEPT
                !.pc = "done", !.failed = TRUE, !.resp = ServerError])
    /\ UNCHANGED <<variant, store, currentModel, lastSelect, selected>>

\* writeJsonFile(DEBUG_MESSAGES_FILE) fails and returns; {success: true}.
FileDebugWriteFails(r) ==
    /\ variant = "file"
    /\ req[r].kind = "debug" /\ req[r].pc = "write"
    /\ req' = [req EXCEPT ![r].pc = "done", ![r].data = <<>>, ![r].failed = TRUE,
                          ![r].resp = [status |-> 200, success |-> TRUE]]
    /\ UNCHANGED <<variant, store, currentModel, lastSelect, selected>>

\* DELETE /api/conversations/:id: the first readJsonFile returns null.
FileDeleteReadConversationsFails(id) ==
    /\ nreq < MaxReq
    /\ variant = "file"
    /\ req' = Append(req,
            [NewRequest("delete", id, Undefined) EXCEPT
                !.pc = "done", !.failed = TRUE, !.pre = StoredFor(id),
                !.resp = ServerError])
    /\ UNCHANGED <<variant, store, currentModel, lastSelect, selected>>

\* A later readJsonFile of the delete handler returns null: what the handler
\* wrote before stays written, and its catch answers 500.
FileDeleteReadFails(r) ==
    /\ variant = "file"
    /\ req[r].kind = "delete" /\ req[r].pc \in {"readMessages", "readDebug"}
    /\ req' = [req EXCEPT ![r].pc = "done", ![r].failed = TRUE,
                          ![r].resp = ServerError]
    /\ UNCHANGED <<variant, store, currentModel, lastSelect, selected>>

\* A writeJsonFile of the delete handler fails and returns; the handler goes
\* on to its next file, and after the last one to {success: true}.
FileDeleteWriteFails(r) ==
    /\ variant = "file"
    /\ req[r].kind = "delete"
    /\ req[r].pc \in {"writeConversations", "writeMessages", "writeDebug"}
    /\ req' = [req EXCEPT
                  ![r].pc = IF req[r].pc = "writeConversations" THEN "readMessages"
                            ELSE IF req[r].pc = "writeMessages" THEN "readDebug"
                            ELSE "done",
                  ![r].data = <<>>,
                  ![r].failed = TRUE,
                  ![r].resp = IF req[r].pc = "writeDebug"
                              THEN [status |-> 200, success |-> TRUE] ELSE @]
    /\ UNCHANGED <<variant, store, currentModel, lastSelect, selected>>

\* POST /api/chat: readJsonFile(MESSAGES_FILE) returns null, messagesData.messages
\* throws a TypeError, which has no status: the catch block re-throws it.
FileChatReadFails(r) ==
    /\ variant = "file"
    /\ req[r].kind = "chat" /\ req[r].pc = "readMessages"
    /\ req' = [req EXCEPT ![r].pc = "done", ![r].failed = TRUE,
                          ![r].resp = ChatCatch(0, NoHeader)]
    /\ UNCHANGED <<variant, store, currentModel, lastSelect, selected>>

\* A writeJsonFile(MESSAGES_FILE) of the chat handler fails and returns; the
\* handler goes on as after a write that landed.
FileChatWriteFails(r) ==
    /\ variant = "file"
    /\ req[r].kind = "chat" /\ req[r].pc \in {"writeUser", "writeAssistant"}
    /\ req' = [req EXCEPT
                  ![r].pc = IF req[r].pc = "writeUser" THEN "writeAssistant" ELSE "done",
                  ![r].data = IF req[r].pc = "writeUser"
                              THEN Append(req[r].data, AssistantMessage(r, req[r].reply))
                              ELSE <<>>,
                  ![r].failed = TRUE,
                  ![r].resp = IF req[r].pc = "writeAssistant"
                              THEN ChatResponse(r, req[r].reply) ELSE @]
    /\ UNCHANGED <<variant, store, currentModel, lastSelect, selected>>

\* INSERT INTO conversations fails: the callback gets err and answers 500.
SqliteCreateFails(title) ==
    /\ nreq < MaxReq
    /\ variant = "sqlite"
    /\ req' = Append(req,
            [NewRequest("create", uuidv4(nreq + 1, 0), title) EXCEPT
                !.pc = "done", !.failed = TRUE, !.resp = ServerError])
    /\ UNCHANGED <<variant, store, currentModel, lastSelect, selected>>

\* The INSERT of the debug handler fails: the promise rejects, catch answers 500.
SqliteDebugFails(message, conversationId) ==
    /\ nreq < MaxReq
    /\ variant = "sqlite"
    /\ req' = Append(req,
            [NewRequest("debug", conversationId, message) EXCEPT
                !.pc = "done", !.failed = TRUE, !.resp = ServerError])
    /\ UNCHANGED <<variant, store, currentModel, lastSelect, selected>>

\* An INSERT of the chat handler fails: the promise rejects with an error
\* that has no status, and the catch block re-throws it.
SqliteChatInsertFails(r) ==
    /\ variant = "sqlite"
    /\ req[r].kind = "chat" /\ req[r].pc \in {"insertUser", "insertAssistant"}
    /\ req' = [req EXCEPT ![r].pc = "done", ![r].failed = TRUE,
                          ![r].resp = ChatCatch(0, NoHeader)]
    /\ UNCHANGED <<variant, store, currentModel, lastSelect, selected>>

\* DELETE FROM messages runs, DELETE FROM conversations fails: its callback
\* gets err and answers 500.  (The first DELETE is given no callback; its
\* failure is not modelled.)
SqliteDeleteConversationsFails(id) ==
    /\ nreq < MaxReq
    /\ variant = "sqlite"
    /\ LET KeepMessage(msg) == msg.conversation_id # id
       IN messages' = SelectSeq(messages, KeepMessage)
    /\ req' = Append(req,
            [NewRequest("delete", id, Undefined) EXCEPT
                !.pc = "done", !.wrote = 1, !.failed = TRUE, !.pre = StoredFor(id),
                !.resp = ServerError])
    /\ UNCHANGED <<variant, conversations, debug_messages, currentModel, lastSelect, selected>>

\* ------------------------------------------------- POST /api/models/select

SelectModel(model) ==
    /\ IF Truthy(AVAILABLE_MODELS(model))
       THEN /\ currentModel' = AVAILABLE_MODELS(model)
            /\ selected' = IF model \in AVAILABLE_MODELS_KEYS THEN model ELSE selected
            /\ lastSelect' = [model |-> model, status |-> 200, before |-> currentModel]
       ELSE /\ UNCHANGED <<currentModel, selected>>
            /\ lastSelect' = [model |-> model, status |-> 400, before |-> currentModel]
    /\ UNCHANGED <<variant, store, req>>

\* ------------------------------------------------------------ GET handlers
\* What each GET answers in the current state; none changes anything.

RECURSIVE Reverse(_)
Reverse(s) == IF s = <<>> THEN <<>> ELSE Append(Reverse(Tail(s)), Head(s))

\* GET /api/conversations (sqlite: ORDER BY created_at DESC)
GetConversations ==
    IF variant = "sqlite" THEN Reverse(conversations) ELSE conversations

\* GetMessages with no test of message_type.
GetMessagesAnyType(id) ==
    LET FileTest(msg) == msg.conversation_id = id
        MemTest(msg) == msg.conversationId = id
    IN IF variant = "memory" THEN SelectSeq(messages, MemTest)
       ELSE SelectSeq(messages, FileTest)

\* GET /api/conversations/:id/messages
GetMessages(id) ==
    LET FileTest(msg) == msg.conversation_id = id /\ msg.message_type = "chat"
        MemTest(msg) == msg.conversationId = id
    IN IF variant = "memory" THEN SelectSeq(messages, MemTest)
       ELSE SelectSeq(messages, FileTest)

\* GET /api/conversations/:id/debug: the list sent (the in-memory variant
\* wraps it as {messages: [...]}).
GetDebug(id) ==
    LET FileTest(msg) == msg.conversation_id = id
        SqliteTest(msg) == msg.conversation_id = id /\ msg.message_type = "debug"
        MemTest(msg) == msg.conversationId = id
    IN IF variant = "memory" THEN SelectSeq(debug_messages, MemTest)
       ELSE IF variant = "sqlite" THEN SelectSeq(messages, SqliteTest)
       ELSE SelectSeq(debug_messages, FileTest)

\* res.json(list): what a client reads as the content of each entry.
ResJsonContents(list) == [i \in 1..Len(list) |-> JsonStringify(list[i].content)]

\* A GET request handled: what it answers is recorded in the request.  The
\* file variant awaits readJsonFile and answers from what it returned; the
\* sqlite variant answers from the rows of one SELECT.
Endpoints == {"conversations", "messages", "debug"}

List(endpoint, id) ==
    /\ nreq < MaxReq
    /\ req' = Append(req,
            [NewRequest("list", id, endpoint) EXCEPT
                !.pc = "done",
                !.resp = [status |-> 200,
                          body |-> IF endpoint = "conversations" THEN GetConversations
                                   ELSE IF endpoint = "messages" THEN GetMessages(id)
                                   ELSE GetDebug(id)]])
    /\ UNCHANGED <<variant, store, currentModel, lastSelect, selected>>

\* The read fails: readJsonFile returns null and data.conversations or
\* data.messages throws (file), or db.all hands err to the callback (sqlite).
ListFails(endpoint, id) ==
    /\ nreq < MaxReq
    /\ variant # "memory"
    /\ req' = Append(req,
            [NewRequest("list", id, endpoint) EXCEPT
                !.pc = "done", !.failed = TRUE, !.resp = ServerError])
    /\ UNCHANGED <<variant, store, currentModel, lastSelect, selected>>

\* The promise of the chat handler rejected (throw error in its catch block)
\* and nothing in server.js handles the rejection.  What happens to the
\* request is up to the Express that is installed: a router that takes the
\* rejection of a handler's promise passes it to the default error handler,
\* which answers 500; one that ignores the promise never answers.
DefaultErrorHandler(r) ==
    /\ req[r].kind = "chat" /\ req[r].pc = "done" /\ req[r].resp = Unhandled
    /\ req' = [req EXCEPT ![r].resp = [status |-> 500, error |-> "Internal Server Error"]]
    /\ UNCHANGED <<variant, store, currentModel, lastSelect, selected>>

\* ----------------------------------------------------------- specifications

\* What the requests of Spec carry: the texts do not steer any handler.
Titles == {"New Chat"}
Texts == {"hello"}
Replies == {"Hi! How can I help?"}
\* One provider status the catch block answers, one it re-throws.
StoreStatuses == {400, 500}

\* Spec: create, chat, debug and delete requests handled concurrently, in
\* each storage variant.
Next ==
    \/ \E title \in Titles : FileCreateRead(title)
    \/ \E title \in Titles : SqliteCreate(title)
    \/ \E title \in Titles : MemCreate(title)
    \/ \E message \in Texts, id \in ClientIds : ChatReceive(message, id, NoFiles)
    \/ \E message \in Texts, id \in ClientIds : FileDebugRead(message, id)
    \/ \E message \in Texts, id \in ClientIds : SqliteDebug(message, id)
    \/ \E message \in Texts, id \in ClientIds : MemDebug(message, id)
    \/ \E id \in ClientIds : FileDeleteReadConversations(id)
    \/ \E id \in ClientIds : SqliteDelete(id)
    \/ \E id \in ClientIds : MemDelete(id)
    \/ \E r \in Requests, status \in StoreStatuses : ChatReject(r, status, NoHeader)
    \/ \E r \in Requests, content \in Replies : FileChatResolve(r, content)
    \/ \E r \in Requests, content \in Replies : SqliteChatResolve(r, content)
    \/ \E r \in Requests, content \in Replies : MemChatResolve(r, content)
    \/ \E r \in Requests : FileChatRead(r)
    \/ \E r \in Requests : FileChatWriteUser(r)
    \/ \E r \in Requests : FileChatWriteAssistant(r)
    \/ \E r \in Requests : FileCreateWrite(r)
    \/ \E r \in Requests : FileDebugWrite(r)
    \/ \E r \in Requests : FileDeleteWriteConversations(r)
    \/ \E r \in Requests : FileDeleteReadMessages(r)
    \/ \E r \in Requests : FileDeleteWriteMessages(r)
    \/ \E r \in Requests : FileDeleteReadDebug(r)
    \/ \E r \in Requests : FileDeleteWriteDebug(r)
    \/ \E r \in Requests : SqliteChatInsertUser(r)
    \/ \E r \in Requests : SqliteChatInsertAssistant(r)

Spec == Init /\ [][Next]_vars

\* SpecFail: the requests of Spec and the GET requests, with reads and
\* writes of the store that may fail.
NextFail ==
    \/ Next
    \/ \E endpoint \in Endpoints, id \in ClientIds : List(endpoint, id)
    \/ \E endpoint \in Endpoints, id \in ClientIds : ListFails(endpoint, id)
    \/ \E title \in Titles : FileCreateReadFails(title)
    \/ \E title \in Titles : SqliteCreateFails(title)
    \/ \E message \in Texts, id \in ClientIds : FileDebugReadFails(message, id)
    \/ \E message \in Texts, id \in ClientIds : SqliteDebugFails(message, id)
    \/ \E id \in ClientIds : FileDeleteReadConversationsFails(id)
    \/ \E id \in ClientIds : SqliteDeleteConversationsFails(id)
    \/ \E r \in Requests : FileCreateWriteFails(r)
    \/ \E r \in Requests : FileDebugWriteFails(r)
    \/ \E r \in Requests : FileDeleteReadFails(r)
    \/ \E r \in Requests : FileDeleteWriteFails(r)
    \/ \E r \in Requests : FileChatReadFails(r)
    \/ \E r \in Requests : FileChatWriteFails(r)
    \/ \E r \in Requests : SqliteChatInsertFails(r)
    \/ \E r \in Requests : DefaultErrorHandler(r)

SpecFail == Init /\ [][NextFail]_vars

\* SpecLive: SpecFail with every handler that is suspended at an await
\* resumed in the end: the completion call returns or fails, a read or a
\* write of the store succeeds or fails.  Nothing makes a client send a
\* request, and nothing in server.js makes the router answer a request whose
\* handler's promise rejected.
Resume(r) ==
    /\ r \in Requests
    /\ \/ \E status \in StoreStatuses : ChatReject(r, status, NoHeader)
       \/ \E content \in Replies : FileChatResolve(r, content)
       \/ \E content \in Replies : SqliteChatResolve(r, content)
       \/ \E content \in Replies : MemChatResolve(r, content)
       \/ FileChatRead(r) \/ FileChatReadFails(r)
       \/ FileChatWriteUser(r) \/ FileChatWriteAssistant(r) \/ FileChatWriteFails(r)
       \/ FileCreateWrite(r) \/ FileCreateWriteFails(r)
       \/ FileDebugWrite(r) \/ FileDebugWriteFails(r)
       \/ FileDeleteWriteConversations(r) \/ FileDeleteReadMessages(r)
       \/ FileDeleteWriteMessages(r) \/ FileDeleteReadDebug(r)
       \/ FileDeleteWriteDebug(r)
       \/ FileDeleteReadFails(r) \/ FileDeleteWriteFails(r)
       \/ SqliteChatInsertUser(r) \/ SqliteChatInsertAssistant(r)
       \/ SqliteChatInsertFails(r)

SpecLive == Init /\ [][NextFail]_vars /\ \A r \in 1..MaxReq : WF_vars(Resume(r))

\* SpecSeq: requests handled one at a time, a request arriving only when
\* every earlier one is answered; the completion call of a chat request
\* succeeds and the store does not fail.  A chat request without a message
\* carries an image.
Idle == \A r \in Requests : req[r].pc = "done"

SeqTexts == {"hello", Undefined}
\* The ids the clients of SpecSeq name: a second one that no conversation has.
SeqIds == ClientIds \cup {uuidv4(0, 1)}
OneFile == [given |-> TRUE, list |-> <<[data |-> "data:image/png;base64,AAAA"]>>]
FilesFor(message) == IF Truthy(message) THEN NoFiles ELSE OneFile

NextSeq ==
    \/ Idle /\ \E title \in Titles : FileCreateRead(title)
    \/ Idle /\ \E title \in Titles : SqliteCreate(title)
    \/ Idle /\ \E title \in Titles : MemCreate(title)
    \/ Idle /\ \E message \in SeqTexts, id \in SeqIds :
                  ChatReceive(message, id, FilesFor(message))
    \/ Idle /\ \E message \in SeqTexts, id \in SeqIds : FileDebugRead(message, id)
    \/ Idle /\ \E message \in SeqTexts, id \in SeqIds : SqliteDebug(message, id)
    \/ Idle /\ \E message \in SeqTexts, id \in SeqIds : MemDebug(message, id)
    \/ Idle /\ \E id \in SeqIds : FileDeleteReadConversations(id)
    \/ Idle /\ \E id \in SeqIds : SqliteDelete(id)
    \/ Idle /\ \E id \in SeqIds : MemDelete(id)
    \/ \E r \in Requests, content \in Replies : FileChatResolve(r, content)
    \/ \E r \in Requests, content \in Replies : SqliteChatResolve(r, content)
    \/ \E r \in Requests, content \in Replies : MemChatResolve(r, content)
    \/ \E r \in Requests : FileChatRead(r)
    \/ \E r \in Requests : FileChatWriteUser(r)
    \/ \E r \in Requests : FileChatWriteAssistant(r)
    \/ \E r \in Requests : FileCreateWrite(r)
    \/ \E r \in Requests : FileDebugWrite(r)
    \/ \E r \in Requests : FileDeleteWriteConversations(r)
    \/ \E r \in Requests : FileDeleteReadMessages(r)
    \/ \E r \in Requests : FileDeleteWriteMessages(r)
    \/ \E r \in Requests : FileDeleteReadDebug(r)
    \/ \E r \in Requests : FileDeleteWriteDebug(r)
    \/ \E r \in Requests : SqliteChatInsertUser(r)
    \/ \E r \in Requests : SqliteChatInsertAssistant(r)

SpecSeq == Init /\ [][NextSeq]_vars

\* SpecSelect: model selection and the chat requests that use the model.
ModelInputs ==
    AVAILABLE_MODELS_KEYS \cup InheritedKeys \cup {"gpt-3.5-turbo", "", Undefined}

NextSelect ==
    \/ \E model \in ModelInputs : SelectModel(model)
    \/ nreq < MaxChat /\ \E message \in Texts : ChatReceive(message, NoId, NoFiles)

SpecSelect == Init /\ [][NextSelect]_vars

\* SpecCatch: the catch block of POST /api/chat over the provider's errors.
\* Status 0 stands for an error that carries no status.
ProviderStatuses == {0, 400, 401, 404, 413, 422, 429, 500, 503}
RetryAfterSeconds ==
    {h * 3600 + m * 60 + s : h \in 0..MaxHours, m \in {0, 1, 59}, s \in {0, 1, 59}}
RetryAfterHeaders ==
    {NoHeader} \cup {[present |-> TRUE, seconds |-> s] : s \in RetryAfterSeconds}

NextCatch ==
    \/ nreq < MaxChat /\ \E message \in Texts : ChatReceive(message, NoId, NoFiles)
    \/ \E r \in Requests, status \in ProviderStatuses, header \in RetryAfterHeaders :
          ChatReject(r, status, header)

SpecCatch == Init /\ [][NextCatch]_vars

\* SpecPrompt: the prompt POST /api/chat builds, over the message and the
\* files of the request body.
PromptTexts == {Undefined, "", "Explain this diagram"}
FileData == {"data:image/png;base64,AAAA", "data:image/jpeg;base64,BBBB"}
FileLists ==
    UNION {[1..n -> {[data |-> d] : d \in FileData}] : n \in 0..MaxFiles}
PromptFiles == {NoFiles} \cup {[given |-> TRUE, list |-> l] : l \in FileLists}

NextPrompt ==
    nreq < MaxChat /\ \E message \in PromptTexts, files \in PromptFiles :
                          ChatReceive(message, NoId, files)

SpecPrompt == Init /\ [][NextPrompt]_vars

\* ------------------------------------------------------------------- claims

\* Request r answered with success.
Answered(r) == req[r].pc = "done" /\ req[r].resp.status = 200

\* A DELETE /api/conversations/id was received.
DeleteIssued(id) ==
    \E d \in Requests : req[d].kind = "delete" /\ req[d].conversationId = id

\* The messages request r stored, as the messages endpoint lists them for the
\* request's conversation id.
TurnListed(r) ==
    LET Mine(msg) == msg.id \in {uuidv4(r, 1), uuidv4(r, 2)}
    IN SelectSeq(GetMessages(req[r].conversationId), Mine)

\* C1: every chat request that answered with a reply has added exactly two
\* chat messages with its conversation id, the user message then the
\* assistant message, and the messages endpoint returns both in that order,
\* whatever chat, debug, create and delete-of-another-conversation requests
\* were handled concurrently.
C1_ChatTurnStored ==
    \A r \in Requests :
        (req[r].kind = "chat" /\ Answered(r) /\ ~DeleteIssued(req[r].conversationId))
        => /\ Len(TurnListed(r)) = 2
           /\ TurnListed(r)[1].id = uuidv4(r, 1)
           /\ TurnListed(r)[1].role = "user"
           /\ TurnListed(r)[2].id = uuidv4(r, 2)
           /\ TurnListed(r)[2].role = "assistant"
           /\ Cardinality({i \in 1..Len(messages) :
                  messages[i].id \in {uuidv4(r, 1), uuidv4(r, 2)}}) = 2

\* What C1 states, outside the file variant (it holds there).
C1_ChatTurnStoredNoFile == variant # "file" => C1_ChatTurnStored

\* C2: once a delete has answered {success: true}, the conversation is absent
\* from the conversation listing and no chat or debug message of that
\* conversation that was stored before the delete began is returned by a
\* messages or debug read.
C2_DeleteRemoves ==
    \A d \in Requests :
        (req[d].kind = "delete" /\ Answered(d))
        => /\ req[d].conversationId \notin Ids(GetConversations)
           /\ Ids(GetMessages(req[d].conversationId)) \cap req[d].pre = {}
           /\ Ids(GetDebug(req[d].conversationId)) \cap req[d].pre = {}

C2_DeleteRemovesNoFile == variant # "file" => C2_DeleteRemoves

\* C4: a conversation a create request answered with has an id no other
\* created conversation has, and is in the conversation listing until a
\* delete for its id is issued.
C4_CreatedListed ==
    \A r \in Requests :
        (req[r].kind = "create" /\ Answered(r))
        => /\ \A q \in Requests \ {r} :
                 req[q].kind = "create" => req[q].conversationId # req[r].conversationId
           /\ req[r].resp.body.id = req[r].conversationId
           /\ ~DeleteIssued(req[r].conversationId)
                 => req[r].conversationId \in Ids(GetConversations)

C4_CreatedListedNoFile == variant # "file" => C4_CreatedListed

\* Request r takes the step: it arrives, or its handler moves on.
Steps(r) == r \notin Requests \/ req[r].pc # req'[r].pc

\* C10: a delete for an id that matches no stored conversation and no stored
\* message leaves the conversations, the chat messages and the debug messages
\* unchanged and answers {success: true}.
C10_DeleteUnknownIsNoOp ==
    [][\A d \in 1..Len(req') :
          (/\ req'[d].kind = "delete"
           /\ Steps(d)
           /\ req'[d].conversationId \notin Ids(conversations)
           /\ StoredFor(req'[d].conversationId) = {})
          => /\ store' = store
             /\ req'[d].pc = "done" => req'[d].resp = [status |-> 200, success |-> TRUE]]_vars

C10_DeleteUnknownIsNoOpNoFile ==
    [][variant # "file" =>
        \A d \in 1..Len(req') :
          (/\ req'[d].kind = "delete"
           /\ Steps(d)
           /\ req'[d].conversationId \notin Ids(conversations)
           /\ StoredFor(req'[d].conversationId) = {})
          => /\ store' = store
             /\ req'[d].pc = "done" => req'[d].resp = [status |-> 200, success |-> TRUE]]_vars

\* The completion call of chat request r failed.
CompletionFailed(r) == req[r].kind = "chat" /\ req[r].error.status # -1

\* C3: a chat request whose completion call fails persists no message: the
\* step that handles the failure leaves the stored collections as they are
\* and ends the handler, and the request changed none of them before.
C3_FailedCompletionPersistsNothing ==
    /\ [][\A r \in Requests :
            (req[r].pc = "awaiting" /\ CompletionFailed(r)')
            => (store' = store /\ req'[r].pc = "done")]_vars
    /\ [](\A r \in Requests :
            CompletionFailed(r)
            => /\ req[r].wrote = 0
               /\ {uuidv4(r, 1), uuidv4(r, 2)}
                    \cap (Ids(messages) \cup Ids(debug_messages)) = {})

\* A chat request failed with a status the catch block does not answer while
\* another request's message is stored.
C3_Witness ==
    \E r \in Requests :
        /\ CompletionFailed(r) /\ req[r].error.status = 500 /\ req[r].pc = "done"
        /\ Len(messages) > 0

\* C5: a select whose model is none of the four supported identifiers (or is
\* missing) is answered 400 and leaves the active model unchanged, so the
\* active model is always one of the four.
C5_UnsupportedRejected ==
    /\ currentModel \in AVAILABLE_MODELS_KEYS
    /\ (lastSelect.status # 0 /\ lastSelect.model \notin AVAILABLE_MODELS_KEYS)
       => (lastSelect.status = 400 /\ currentModel = lastSelect.before)

\* C6: a chat request calls the completion API with the supported identifier
\* selected last with success before it arrived ('gpt-4o' before any select),
\* and that identifier is the active model.
C6_ChatUsesSelected ==
    /\ currentModel = selected
    /\ \A r \in Requests : req[r].kind = "chat" => req[r].call.model = req[r].expect

\* The minutes a wait message states in all.
StatedMinutes(error) ==
    IF "hours" \in DOMAIN error THEN 60 * error.hours + error.minutes
    ELSE error.minutes

\* The completion call of r failed with status 429 and a retry-after header.
RateLimited(r) ==
    CompletionFailed(r) /\ req[r].error.status = 429 /\ req[r].error.header.present

\* C7 as stated: the response to a provider 429 with retry-after S is 429,
\* RATE_LIMIT_EXCEEDED, retryAfter S, and its message states S div 3600 hours
\* and (S mod 3600) div 60 minutes.
C7_WholeHoursAndMinutes ==
    \A r \in Requests :
        RateLimited(r)
        => LET S == req[r].error.header.seconds
               error == req[r].resp.error
           IN /\ req[r].resp.status = 429
              /\ req[r].resp.code = "RATE_LIMIT_EXCEEDED"
              /\ req[r].resp.retryAfter = S
              /\ error.minutes = (S % 3600) \div 60
              /\ IF "hours" \in DOMAIN error THEN error.hours = S \div 3600
                 ELSE S \div 3600 = 0

\* C7 amended: the message states the wait in minutes rounded up, T the least
\* number of minutes that is at least S seconds: T div 60 hours and T mod 60
\* minutes when T is an hour or more, T minutes alone otherwise; 3661 seconds
\* give "1 hours and 2 minutes".
C7_MinutesRoundedUp ==
    \A r \in Requests :
        RateLimited(r)
        => LET S == req[r].error.header.seconds
               error == req[r].resp.error
               T == StatedMinutes(error)
           IN /\ req[r].resp.status = 429
              /\ req[r].resp.code = "RATE_LIMIT_EXCEEDED"
              /\ req[r].resp.retryAfter = S
              /\ 60 * T >= S /\ 60 * (T - 1) < S
              /\ "hours" \in DOMAIN error <=> T >= 60
              /\ "hours" \in DOMAIN error => error.minutes \in 0..59
              /\ S = 3661 => error = [hours |-> 1, minutes |-> 2]

\* A provider 429 with retry-after 3661 was answered.
C7_Witness ==
    \E r \in Requests :
        /\ RateLimited(r) /\ req[r].error.header.seconds = 3661
        /\ req[r].resp.status = 429

\* C8: provider statuses 429, 413 and 400 are answered with the same status
\* and the codes RATE_LIMIT_EXCEEDED, PAYLOAD_TOO_LARGE and BAD_REQUEST, and
\* no other provider status is answered with one of these codes.
C8_StatusCodes ==
    \A r \in Requests :
        CompletionFailed(r)
        => LET status == req[r].error.status
               resp == req[r].resp
           IN /\ status = 429 => (resp.status = 429 /\ resp.code = "RATE_LIMIT_EXCEEDED")
              /\ status = 413 => (resp.status = 413 /\ resp.code = "PAYLOAD_TOO_LARGE")
              /\ status = 400 => (resp.status = 400 /\ resp.code = "BAD_REQUEST")
              /\ status \notin {429, 413, 400} => "code" \notin DOMAIN resp

\* A provider 413 was answered.
C8_Witness ==
    \E r \in Requests :
        /\ CompletionFailed(r) /\ req[r].error.status = 413
        /\ req[r].resp.code = "PAYLOAD_TOO_LARGE"

\* C9: the completion request is the system instruction followed by one user
\* turn; with N >= 1 files the turn is N+1 segments, the text (the default
\* prompt for an empty or missing message) then the N images in order; with
\* no files its content is the message.
C9_PromptShape ==
    \A r \in Requests :
        req[r].kind = "chat"
        => LET prompt == req[r].call.messages
               list == req[r].files.list
               N == Len(list)
           IN /\ Len(prompt) = 2
              /\ prompt[1] = [role |-> "system", content |-> [text |-> SystemPrompt]]
              /\ prompt[2].role = "user"
              /\ IF req[r].files.given /\ N >= 1
                 THEN /\ DOMAIN prompt[2].content = {"parts"}
                      /\ Len(prompt[2].content.parts) = N + 1
                      /\ prompt[2].content.parts[1] =
                            [type |-> "text",
                             text |-> IF req[r].message \in {"", Undefined}
                                      THEN DefaultImagePrompt ELSE req[r].message]
                      /\ \A i \in 1..N :
                            prompt[2].content.parts[i + 1] =
                                [type |-> "image_url",
                                 image_url |-> [url |-> list[i].data]]
                 ELSE prompt[2].content = [text |-> req[r].message]

\* A chat request with an empty message and two different files was sent on.
C9_Witness ==
    \E r \in Requests :
        /\ req[r].kind = "chat" /\ req[r].pc = "awaiting"
        /\ req[r].message = ""
        /\ Len(req[r].files.list) = 2
        /\ req[r].files.list[1] # req[r].files.list[2]

\* C11: a create, delete, debug-append or list request during which a read or
\* a write of the store failed is never answered with success, and once
\* answered its response is 500.
C11_StoreFailureIs500 ==
    \A r \in Requests :
        (req[r].kind \in {"create", "delete", "debug", "list"} /\ req[r].failed)
        => /\ req[r].resp.status # 200
           /\ req[r].pc = "done" => req[r].resp.status = 500

\* Request r was received and a response to it was sent.
Responded(r) == r <= Len(req) /\ req[r].resp.status # 0

\* The chat request r ran into a failure the catch block has no answer for:
\* a completion error with a status other than 429, 413 and 400, or a failed
\* read or write of the store.
ChatFailedOtherwise(r) ==
    /\ r <= Len(req) /\ req[r].kind = "chat"
    /\ req[r].failed \/ req[r].error.status \notin {-1, 429, 413, 400}

\* C12: every request received is answered in the end, and a chat request
\* whose completion call failed with a status other than 429, 413 and 400, or
\* whose read or write of the store failed, is answered with a 500.
C12_EveryRequestAnswered ==
    \A r \in 1..MaxReq :
        [](r <= Len(req)
           => <>(Responded(r) /\ (ChatFailedOtherwise(r) => req[r].resp.status = 500)))

\* The chat and the debug messages stored.
StoredMessages == Range(messages) \cup Range(debug_messages)

\* C13: a stored message is never altered, and a step after which it is no
\* longer stored is a step of a delete of the conversation its conversation_id
\* names, whatever requests are handled concurrently.
C13_MessagesLeaveOnlyByDelete ==
    [][/\ \A m \in StoredMessages :
              m \notin StoredMessages'
              => \E d \in 1..Len(req') :
                     /\ req'[d].kind = "delete"
                     /\ Steps(d)
                     /\ req'[d].conversationId = ConversationOf(m)
       /\ \A m \in StoredMessages, n \in StoredMessages' : m.id = n.id => m = n]_vars

C13_MessagesLeaveOnlyByDeleteNoFile ==
    [][variant # "file" =>
        /\ \A m \in StoredMessages :
              m \notin StoredMessages'
              => \E d \in 1..Len(req') :
                     /\ req'[d].kind = "delete"
                     /\ Steps(d)
                     /\ req'[d].conversationId = ConversationOf(m)
        /\ \A m \in StoredMessages, n \in StoredMessages' : m.id = n.id => m = n]_vars

\* C14: when a chat or a debug request stores a message, the message's
\* conversation_id is the id of a conversation stored at that moment.
C14_ConversationExistsWhenStored ==
    [][\A m \in StoredMessages' \ StoredMessages :
           ConversationOf(m) \in Ids(conversations)]_vars

\* Every id a request can name or a record can carry.
AllIds == {uuidv4(r, k) : r \in 0..MaxReq, k \in 0..2}

\* The message was made by a request of this kind: its id is one the request drew.
MadeBy(msg, kind) ==
    \E r \in Requests :
        req[r].kind = kind /\ msg.id \in {uuidv4(r, 0), uuidv4(r, 1), uuidv4(r, 2)}

\* Everything stored for conversation id by requests of one kind, in the
\* order it is stored.
StoredByKind(id, kind) ==
    LET Test(msg) == ConversationOf(msg) = id /\ MadeBy(msg, kind)
    IN SelectSeq(messages \o debug_messages, Test)

\* C15: the messages endpoint returns exactly what chat turns stored for the
\* id and the debug endpoint exactly what debug appends stored for it, in the
\* order stored; no message is returned by both, a debug append changes no
\* messages listing and a chat turn changes no debug listing.
C15_ListingsPartition ==
    /\ [](\A id \in AllIds :
            /\ GetMessages(id) = StoredByKind(id, "chat")
            /\ GetDebug(id) = StoredByKind(id, "debug")
            /\ \A other \in AllIds : Ids(GetMessages(id)) \cap Ids(GetDebug(other)) = {})
    /\ [][\A r \in 1..Len(req') :
            /\ (req'[r].kind = "debug" /\ Steps(r))
               => \A id \in AllIds : GetMessages(id)' = GetMessages(id)
            /\ (req'[r].kind = "chat" /\ Steps(r))
               => \A id \in AllIds : GetDebug(id)' = GetDebug(id)]_vars

\* The sqlite table holds chat rows and a debug row of one conversation id,
\* and each endpoint lists its own.
C15_Witness ==
    \E id \in AllIds :
        /\ variant = "sqlite"
        /\ Len(GetMessages(id)) = 2
        /\ Len(GetDebug(id)) = 1
        /\ Len(messages) = 3

\* C16: a create request with title T is answered with a conversation whose
\* title is T and whose id no other create was given, and an entry with that
\* id in the conversation listing carries the title T.
C16_TitleKept ==
    \A r \in Requests :
        (req[r].kind = "create" /\ Answered(r))
        => LET T == req[r].message
               body == req[r].resp.body
           IN /\ "title" \in DOMAIN body /\ body.title = T
              /\ \A q \in Requests \ {r} :
                    (req[q].kind = "create" /\ Answered(q)) => req[q].resp.body.id # body.id
              /\ \A i \in 1..Len(GetConversations) :
                    GetConversations[i].id = body.id
                    => /\ "title" \in DOMAIN GetConversations[i]
                       /\ GetConversations[i].title = T

C16_TitleKeptNoMemory == variant # "memory" => C16_TitleKept

\* What a client reads after the requests so far: the ids of the stored
\* conversations and, for every id, the (role, content) pairs of the messages
\* endpoint and the contents of the debug endpoint.
Observed ==
    [conversations |-> Ids(GetConversations),
     messages |-> [id \in AllIds |->
                     [i \in 1..Len(GetMessages(id)) |->
                         <<GetMessages(id)[i].role,
                           ResJsonContents(GetMessages(id))[i]>>]],
     debug |-> [id \in AllIds |-> ResJsonContents(GetDebug(id))]]

\* What the first n requests amount to, by the contract of the endpoints and
\* with no reference to a variant: a create adds its id, a chat turn adds the
\* user and the assistant message to its conversation id, a debug append adds
\* its message, a delete removes the id and empties both listings of it.  A
\* message the body does not carry is a content the client does not get.
RECURSIVE Contract(_)
Contract(n) ==
    IF n = 0
    THEN [conversations |-> {},
          messages |-> [id \in AllIds |-> <<>>],
          debug |-> [id \in AllIds |-> <<>>]]
    ELSE LET before == Contract(n - 1)
             id == req[n].conversationId
             content == IF req[n].message = Undefined THEN Absent ELSE req[n].message
         IN CASE req[n].kind = "create" ->
                    [before EXCEPT !.conversations = @ \cup {id}]
              [] req[n].kind = "chat" ->
                    [before EXCEPT !.messages[id] =
                        @ \o <<<<"user", content>>, <<"assistant", req[n].reply>>>>]
              [] req[n].kind = "debug" ->
                    [before EXCEPT !.debug[id] = Append(@, content)]
              [] req[n].kind = "delete" ->
                    [before EXCEPT !.conversations = @ \ {id},
                                   !.messages[id] = <<>>,
                                   !.debug[id] = <<>>]
              [] OTHER -> before

\* C17: after any sequence of requests handled one at a time, each of the
\* three variants shows the client what the sequence amounts to by the
\* contract, and so the three show the same: the same conversation ids, the
\* same (role, content) pairs per id, the same debug contents per id.
C17_VariantsAgree == Idle => Observed = Contract(Len(req))

\* C17 for requests that all carry a message.
C17_VariantsAgreeOnStrings ==
    (Idle /\ \A r \in Requests : req[r].message # Undefined)
    => Observed = Contract(Len(req))

\* The records of a collection that do not belong to conversation id, in
\* the order they are stored.
OtherConversations(s, id) ==
    LET Test(conv) == conv.id # id
    IN SelectSeq(s, Test)

OtherMessages(s, id) ==
    LET Test(msg) == ConversationOf(msg) # id
    IN SelectSeq(s, Test)

\* C19: every step of a delete handled with no other request in flight
\* leaves each conversation with another id and each chat or debug message
\* with another conversation_id stored, unchanged and in the same relative
\* order, and adds none.
C19_DeleteFrame ==
    [][\A d \in 1..Len(req') :
          (req'[d].kind = "delete" /\ Steps(d))
          => LET id == req'[d].conversationId
             IN /\ OtherConversations(conversations', id) = OtherConversations(conversations, id)
                /\ OtherMessages(messages', id) = OtherMessages(messages, id)
                /\ OtherMessages(debug_messages', id) = OtherMessages(debug_messages, id)]_vars

\* The in-memory delete spliced the two messages of one conversation out of
\* MESSAGES and the two of another conversation are left.
C19_Witness ==
    \E d \in Requests :
        /\ variant = "memory"
        /\ req[d].kind = "delete" /\ Answered(d)
        /\ Cardinality(req[d].pre) = 2
        /\ Len(messages) = 2
        /\ \A i \in 1..Len(messages) : ConversationOf(messages[i]) # req[d].conversationId

\* Chat request r's user and assistant message are in the stored messages,
\* the user message first.
TurnStored(r) ==
    \E i, j \in 1..Len(messages) :
        /\ i < j
        /\ messages[i].id = uuidv4(r, 1)
        /\ messages[j].id = uuidv4(r, 2)

\* The appends of chat request r that took effect until now.
Appended(r) == req[r].wrote

\* C18: in a chat request the completion call has returned before the user
\* message is appended, the user message is appended before the assistant
\* message, and the response is sent only after both appends: the first
\* append puts the user message into the store, the second the assistant
\* message, and a response is never sent with an append still to come.
C18_ChatStepOrder ==
    /\ [](\A r \in Requests :
            req[r].kind = "chat"
            => /\ Appended(r) >= 1 => req[r].reply # Undefined
               /\ req[r].resp.status = 200 => Appended(r) = 2)
    /\ [][\A r \in Requests :
            req[r].kind = "chat"
            => /\ (Appended(r) = 0 /\ Appended(r)' >= 1)
                  => uuidv4(r, 1) \in Ids(messages')
               /\ (Appended(r) = 1 /\ Appended(r)' = 2)
                  => uuidv4(r, 2) \in Ids(messages')
               /\ (Appended(r) = 0 /\ Appended(r)' = 2) => TurnStored(r)'
               /\ (req[r].resp = Pending /\ req'[r].resp.status = 200)
                  => Appended(r)' = 2]_vars

\* C18 for the chat requests during which no read or write of the store fails.
C18_ChatStepOrderNoFailure ==
    /\ [](\A r \in Requests :
            (req[r].kind = "chat" /\ ~req[r].failed)
            => /\ Appended(r) >= 1 => req[r].reply # Undefined
               /\ req[r].resp.status = 200 => Appended(r) = 2)
    /\ [][\A r \in Requests :
            (req[r].kind = "chat" /\ ~req'[r].failed)
            => /\ (Appended(r) = 0 /\ Appended(r)' >= 1)
                  => uuidv4(r, 1) \in Ids(messages')
               /\ (Appended(r) = 1 /\ Appended(r)' = 2)
                  => uuidv4(r, 2) \in Ids(messages')
               /\ (Appended(r) = 0 /\ Appended(r)' = 2) => TurnStored(r)'
               /\ (req[r].resp = Pending /\ req'[r].resp.status = 200)
                  => Appended(r)' = 2]_vars

====
